---- MODULE Spec2Model ----
(***************************************************************************)
(* Model of the Lucia authentication module of Abraxas-365/toolkit:        *)
(* the session stores (in-memory and Postgres-backed), the in-memory user  *)
(* store and the generic AuthService that orchestrates an OAuth login.     *)
(*                                                                         *)
(* Time is kept in ticks, TicksPerSec ticks to the second, so that         *)
(* time.Now().Unix() (whole seconds) and time.Time comparisons (which see  *)
(* the fraction of a second) are both expressible.                         *)
(***************************************************************************)
EXTENDS Integers, Sequences, FiniteSets, TLC

(* ------------------------------ bounds --------------------------------- *)

\* resolution of the clock: ticks per second
TicksPerSec == 2
\* Unix second at which the model starts
StartSec == 1000
\* how many whole seconds the clock may tick forward after a jump
MaxSecs == 1
\* how many whole session lifetimes the clock may jump ahead
MaxDays == 1

(* ------------------------- program constants --------------------------- *)

\* 24 * time.Hour, in seconds
SessionTTL == 86400

\* the values GenerateID() may return (collisions are possible)
IDs == {"id1", "id2"}
\* ids of the users known to the identity providers
ExtIDs == {"42"}
\* names under which a provider may be registered / requested
ProviderNames == {"google", "gh"}
\* the registrations an application may make: name, provider implementation
Registrations == {<<"google", "GoogleProvider">>, <<"gh", "GitHubProvider">>}
\* the session store implementations
StoreKinds == {"InMemorySessionStore", "PostgresStore"}
\* outcomes of a database statement: executed, foreign key violated, failed
DbOutcomes == {"ok", "fk", "fail"}

(* ------------------------------ errors --------------------------------- *)

NewApiError(errType, message) ==
    [family |-> "ApiError", type |-> errType, msg |-> message]
NewLuciaError(errType, message) ==
    [family |-> "LuciaError", type |-> errType, msg |-> message]
NoErr == [family |-> "nil", type |-> "nil", msg |-> ""]

ErrDatabase(msg) == NewApiError("DatabaseError", msg)
ErrNotFound(msg) == NewApiError("NotFound", msg)
ErrBadRequest(msg) == NewApiError("BadRequest", msg)
ErrUnauthorized(msg) == NewApiError("Unauthorized", msg)
ErrConflict(msg) == NewApiError("Conflict", msg)

IsNotFound(err) == err.family = "ApiError" /\ err.type = "NotFound"

(* ------------------------------- time ---------------------------------- *)

\* time.Now().Unix(): the whole seconds of an instant given in ticks
Unix(t) == t \div TicksPerSec
\* time.Unix(sec, 0): the instant at the start of a second
TimeUnix(sec) == sec * TicksPerSec
\* EXTRACT(EPOCH FROM ts) scanned into an int64
ExtractEpoch(ts) == ts \div TicksPerSec

(* ------------------------------- maps ---------------------------------- *)

EmptyMap == [k \in {} |-> k]
Put(m, k, v) == [x \in (DOMAIN m) \cup {k} |-> IF x = k THEN v ELSE m[x]]
Del(m, k) == [x \in (DOMAIN m) \ {k} |-> m[x]]

Session(id, userID, expiresAt) ==
    [ID |-> id, UserID |-> userID, ExpiresAt |-> expiresAt]

\* Session.IsExpired at instant t
IsExpired(s, t) == s.ExpiresAt < Unix(t)

(* ---------------------- InMemorySessionStore --------------------------- *)

\* mutant: the insert overwrites instead of checking for the id
InMemorySessionStore_CreateSession_Overwrite(m, s) ==
    [store |-> Put(m, s.ID, s), res |-> {}, err |-> NoErr]

InMemorySessionStore_CreateSession(m, s) ==
    IF s.ID \in DOMAIN m
    THEN [store |-> m, res |-> {}, err |-> ErrConflict("Session already exists")]
    ELSE [store |-> Put(m, s.ID, s), res |-> {}, err |-> NoErr]

\* mutant: an expired session is reported but left in the map
InMemorySessionStore_GetSession_NoDelete(m, id, t) ==
    IF id \notin DOMAIN m
    THEN [store |-> m, res |-> {}, err |-> ErrNotFound("Session not found")]
    ELSE IF Unix(t) > m[id].ExpiresAt
         THEN [store |-> m, res |-> {}, err |-> ErrNotFound("Session expired")]
         ELSE [store |-> m, res |-> {m[id]}, err |-> NoErr]

InMemorySessionStore_GetSession(m, id, t) ==
    IF id \notin DOMAIN m
    THEN [store |-> m, res |-> {}, err |-> ErrNotFound("Session not found")]
    ELSE IF Unix(t) > m[id].ExpiresAt
         THEN [store |-> Del(m, id), res |-> {},
               err |-> ErrNotFound("Session expired")]
         ELSE [store |-> m, res |-> {m[id]}, err |-> NoErr]

\* mutant: deleting an absent id succeeds silently
InMemorySessionStore_DeleteSession_Silent(m, id) ==
    [store |-> Del(m, id), res |-> {}, err |-> NoErr]

InMemorySessionStore_DeleteSession(m, id) ==
    IF id \notin DOMAIN m
    THEN [store |-> m, res |-> {}, err |-> ErrNotFound("Session not found")]
    ELSE [store |-> Del(m, id), res |-> {}, err |-> NoErr]

(* --------------------------- PostgresStore ----------------------------- *)
(* The sessions table holds rows (id, user_id, expires_at), id being the   *)
(* key; db is the outcome of the statement at the database.                *)

\* mutant: the expiry is stored as a bare number of seconds, not as an instant
PostgresStore_CreateSession_RawSeconds(tbl, s, db) ==
    IF db = "fail"
    THEN [store |-> tbl, res |-> {}, err |-> ErrDatabase("Failed to create session")]
    ELSE IF s.ID \in DOMAIN tbl
    THEN [store |-> tbl, res |-> {}, err |-> ErrConflict("Session already exists")]
    ELSE IF db = "fk"
    THEN [store |-> tbl, res |-> {}, err |-> ErrBadRequest("Invalid user ID")]
    ELSE [store |-> Put(tbl, s.ID, [id |-> s.ID, user_id |-> s.UserID,
                                    expires_at |-> s.ExpiresAt]),
          res |-> {}, err |-> NoErr]

PostgresStore_CreateSession(tbl, s, db) ==
    IF db = "fail"
    THEN [store |-> tbl, res |-> {}, err |-> ErrDatabase("Failed to create session")]
    ELSE IF s.ID \in DOMAIN tbl
    THEN [store |-> tbl, res |-> {}, err |-> ErrConflict("Session already exists")]
    ELSE IF db = "fk"
    THEN [store |-> tbl, res |-> {}, err |-> ErrBadRequest("Invalid user ID")]
    ELSE [store |-> Put(tbl, s.ID, [id |-> s.ID, user_id |-> s.UserID,
                                    expires_at |-> TimeUnix(s.ExpiresAt)]),
          res |-> {}, err |-> NoErr]

PostgresStore_GetSession(tbl, id, t, db) ==
    IF db = "fail"
    THEN [store |-> tbl, res |-> {}, err |-> ErrDatabase("Failed to get session")]
    ELSE IF id \notin DOMAIN tbl
    THEN [store |-> tbl, res |-> {}, err |-> ErrNotFound("Session not found")]
    ELSE LET session == Session(tbl[id].id, tbl[id].user_id,
                                ExtractEpoch(tbl[id].expires_at))
         IN IF TimeUnix(session.ExpiresAt) < t
            THEN [store |-> tbl, res |-> {},
                  err |-> ErrUnauthorized("Session expired")]
            ELSE [store |-> tbl, res |-> {session}, err |-> NoErr]

PostgresStore_DeleteSession(tbl, id, db) ==
    IF db = "fail"
    THEN [store |-> tbl, res |-> {}, err |-> ErrDatabase("Failed to delete session")]
    ELSE IF id \notin DOMAIN tbl
    THEN [store |-> tbl, res |-> {}, err |-> ErrNotFound("Session not found")]
    ELSE [store |-> Del(tbl, id), res |-> {}, err |-> NoErr]

(* ------------------------------- state --------------------------------- *)

VARIABLES
    clock,        \* the current instant, in ticks
    sessionStore, \* which SessionStore implementation is in use
    sessions,     \* InMemorySessionStore.sessions
    db_sessions,  \* the sessions table behind PostgresStore
    users,        \* InMemoryUserStore.users
    providers,    \* AuthService.providers
    call,         \* the HandleCallback invocation in progress
    last,         \* the operation completed most recently
    prev,         \* the operation completed before it
    mu,           \* the sync.RWMutex of each in-memory store
    goroutines    \* the store call each goroutine is making

vars == <<clock, sessionStore, sessions, db_sessions, users, providers,
          call, last, prev, mu, goroutines>>
concVars == <<mu, goroutines>>
storeVars == <<sessionStore, sessions, db_sessions>>
serviceVars == <<users, providers, call>>

\* the database outcomes a store implementation can meet
DbOutcomesOf(kind) ==
    IF kind = "InMemorySessionStore" THEN {"ok"} ELSE DbOutcomes

\* the content of the store in use
Store == IF sessionStore = "InMemorySessionStore" THEN sessions ELSE db_sessions

SetStore(m) ==
    IF sessionStore = "InMemorySessionStore"
    THEN sessions' = m /\ UNCHANGED db_sessions
    ELSE db_sessions' = m /\ UNCHANGED sessions

\* SessionStore interface, dispatched on the implementation in use
SessionStore_CreateSession(s, db) ==
    IF sessionStore = "InMemorySessionStore"
    THEN InMemorySessionStore_CreateSession(sessions, s)
    ELSE PostgresStore_CreateSession(db_sessions, s, db)

SessionStore_GetSession(id, db) ==
    IF sessionStore = "InMemorySessionStore"
    THEN InMemorySessionStore_GetSession(sessions, id, clock)
    ELSE PostgresStore_GetSession(db_sessions, id, clock, db)

SessionStore_DeleteSession(id, db) ==
    IF sessionStore = "InMemorySessionStore"
    THEN InMemorySessionStore_DeleteSession(sessions, id)
    ELSE PostgresStore_DeleteSession(db_sessions, id, db)

(* ------------------------- the operation log --------------------------- *)

NoOp == [seq |-> 0, op |-> "none", id |-> "", arg |-> {}, res |-> {},
         err |-> NoErr, db |-> "ok", calls |-> <<>>, ext |-> ""]
\* what is remembered of the operation before the last one
Brief(e) == [op |-> e.op, id |-> e.id, err |-> e.err]

\* a call made on a session store
Log(op, id, arg, res, err, db) ==
    /\ prev' = Brief(last)
    /\ last' = [seq |-> 1 - last.seq, op |-> op, id |-> id, arg |-> arg,
                res |-> res, err |-> err, db |-> db, calls |-> <<>>, ext |-> ""]

\* a call made on the AuthService, with the dependency calls it made; what
\* came before it is remembered only for the reads of a session (GetSession)
LogCall(op, id, res, err, db, calls, ext) ==
    /\ prev' = Brief(NoOp)
    /\ last' = [seq |-> 1 - last.seq, op |-> op, id |-> id, arg |-> {},
                res |-> res, err |-> err, db |-> db, calls |-> calls,
                ext |-> ext]

Idle == [pc |-> "idle"]

\* the goroutines that call the in-memory stores concurrently
Goroutines == {"g1", "g2"}
\* a sync.RWMutex that nobody holds: the holders of the shared lock and the
\* holder of the exclusive lock
Unlocked == [r |-> {}, w |-> {}]
\* a goroutine that is not inside a store call
Resting == [pc |-> "idle", op |-> "", arg |-> {}, ret |-> {}, cb |-> {}]

Init ==
    /\ clock = TimeUnix(StartSec)
    /\ sessionStore \in StoreKinds
    /\ sessions = EmptyMap
    /\ db_sessions = EmptyMap
    /\ users = EmptyMap
    /\ providers = EmptyMap
    /\ call = Idle
    /\ last = NoOp
    /\ prev = Brief(NoOp)
    /\ mu = [users |-> Unlocked, sessions |-> Unlocked]
    /\ goroutines = [g \in Goroutines |-> Resting]

(* ------------------------------ the clock ------------------------------ *)

DayTicks == SessionTTL * TicksPerSec

Advance(d) ==
    /\ call.pc = "idle"
    /\ \/ d = 1 /\ (clock - TimeUnix(StartSec)) % DayTicks < MaxSecs * TicksPerSec
       \/ d > 1 /\ clock + d <= TimeUnix(StartSec) + MaxDays * (DayTicks + TicksPerSec)
    /\ clock' = clock + d
    /\ LogCall("Advance", "", {}, NoErr, "ok", <<>>, "")
    /\ UNCHANGED <<concVars, storeVars, serviceVars>>

(* ------------------- direct use of the session store ------------------- *)

\* the sessions a caller may hand to CreateSession at the current instant
NewSessions ==
    { Session(id, "id1", StartSec) : id \in IDs } \cup
    { Session(id, "id2", StartSec + SessionTTL) : id \in IDs }

Store_CreateSession(s, db) ==
    LET r == SessionStore_CreateSession(s, db) IN
    /\ call.pc = "idle"
    /\ SetStore(r.store)
    /\ Log("CreateSession", s.ID, {s}, r.res, r.err, db)
    /\ UNCHANGED <<concVars, clock, sessionStore, serviceVars>>

Store_GetSession(id, db) ==
    LET r == SessionStore_GetSession(id, db) IN
    /\ call.pc = "idle"
    /\ SetStore(r.store)
    /\ Log("GetSession", id, {}, r.res, r.err, db)
    /\ UNCHANGED <<concVars, clock, sessionStore, serviceVars>>

Store_DeleteSession(id, db) ==
    LET r == SessionStore_DeleteSession(id, db) IN
    /\ call.pc = "idle"
    /\ SetStore(r.store)
    /\ Log("DeleteSession", id, {}, r.res, r.err, db)
    /\ UNCHANGED <<concVars, clock, sessionStore, serviceVars>>

StoreNext ==
    \/ \E d \in {1, DayTicks} : Advance(d)
    \/ \E s \in NewSessions, db \in DbOutcomesOf(sessionStore) :
           Store_CreateSession(s, db)
    \/ \E id \in IDs, db \in DbOutcomesOf(sessionStore) : Store_GetSession(id, db)
    \/ \E id \in IDs, db \in DbOutcomesOf(sessionStore) : Store_DeleteSession(id, db)

StoreSpec == Init /\ [][StoreNext]_vars

(* --------------------------- the providers ----------------------------- *)

\* UserInfo.Provider as each provider implementation sets it
ProviderTag(kind) == IF kind = "GoogleProvider" THEN "google" ELSE "github"

\* the profile the identity provider holds for an external user
Profile(ext) ==
    IF ext = "42" THEN [Email |-> "a@b.com", Name |-> "A"]
    ELSE [Email |-> "c@d.com", Name |-> "C"]

\* the UserInfo that GetUserInfo builds from the profile response
UserInfo(kind, ext) ==
    [ID |-> ext, Email |-> Profile(ext).Email, Name |-> Profile(ext).Name,
     Provider |-> ProviderTag(kind)]

(* ------------------------- InMemoryUserStore --------------------------- *)

\* the users the loop of GetUserByProviderID may return (the map is iterated
\* in no fixed order); none means NotFound
InMemoryUserStore_GetUserByProviderID(m, provider, providerID) ==
    { m[k] : k \in { x \in DOMAIN m : /\ m[x].Provider = provider
                                      /\ m[x].ProviderID = providerID } }

InMemoryUserStore_CreateUser(m, userInfo, id) ==
    LET user == [ID |-> id, Email |-> userInfo.Email, Name |-> userInfo.Name,
                 ProviderID |-> userInfo.ID, Provider |-> userInfo.Provider]
    IN IF id \in DOMAIN m
       THEN [store |-> m, res |-> {}, err |-> ErrConflict("User already exists")]
       ELSE [store |-> Put(m, id, user), res |-> {user}, err |-> NoErr]

\* AuthUserStore interface: the in-memory store, or a store whose database
\* call fails
AuthUserStore_GetUserByProviderID(m, provider, providerID, db) ==
    LET found == InMemoryUserStore_GetUserByProviderID(m, provider, providerID)
    IN IF db = "fail"
       THEN [res |-> {}, err |-> ErrDatabase("Failed to fetch user")]
       ELSE IF found = {}
       THEN [res |-> {}, err |-> ErrNotFound("User not found")]
       ELSE [res |-> found, err |-> NoErr]

AuthUserStore_CreateUser(m, userInfo, id, db) ==
    IF db = "fail"
    THEN [store |-> m, res |-> {}, err |-> ErrDatabase("Failed to create user")]
    ELSE InMemoryUserStore_CreateUser(m, userInfo, id)

\* the outcomes a call of the service on a store can meet
SvcDbOutcomes == IF sessionStore = "InMemorySessionStore" THEN {"ok"}
                 ELSE {"ok", "fail"}

(* ---------------------------- AuthService ------------------------------ *)

\* a dependency call made by the service, with the error it returned
Called(fn, err) == [fn |-> fn, err |-> err]

ErrUnknownProvider == NewLuciaError("UnknownProvider", "Unknown OAuth provider")

RegisterProvider(name, provider) ==
    /\ call.pc = "idle"
    /\ last.op = "none"
    /\ providers' = Put(providers, name, provider)
    /\ UNCHANGED <<concVars, clock, storeVars, users, call, last, prev>>

\* mutant: the provider is used without looking at the registry's answer
GetAuthURL_NoCheck(provider) ==
    /\ call.pc = "idle"
    /\ LogCall("AuthService.GetAuthURL", provider, {}, NoErr, "ok",
               <<Called("GetAuthURL", NoErr)>>, "")
    /\ UNCHANGED <<concVars, clock, storeVars, serviceVars>>

GetAuthURL(provider) ==
    /\ call.pc = "idle"
    /\ IF provider \notin DOMAIN providers
       THEN LogCall("AuthService.GetAuthURL", provider, {}, ErrUnknownProvider,
                    "ok", <<>>, "")
       ELSE LogCall("AuthService.GetAuthURL", provider, {}, NoErr, "ok",
                    <<Called("GetAuthURL", NoErr)>>, "")
    /\ UNCHANGED <<concVars, clock, storeVars, serviceVars>>

\* mutant: the expiry is the time of creation, the lifetime is not added
NewSession_NoTTL(id, user, t) == Session(id, user.ID, Unix(t))

\* the Session that HandleCallback and CreateSession build for a user
NewSession(id, user, t) == Session(id, user.ID, Unix(t) + SessionTTL)

\* HandleCallback returns: the invocation ends and its result is logged
Return(res, err, db, calls) ==
    /\ LogCall("AuthService.HandleCallback", call.provider, res, err, db, calls,
               call.ext)
    /\ call' = Idle

\* lines 75-78: the registry lookup
HandleCallback(provider, ext) ==
    /\ call.pc = "idle"
    /\ IF provider \notin DOMAIN providers
       THEN /\ LogCall("AuthService.HandleCallback", provider, {},
                       ErrUnknownProvider, "ok", <<>>, ext)
            /\ UNCHANGED call
       ELSE /\ call' = [pc |-> "ExchangeCode", provider |-> provider,
                        ext |-> ext, calls |-> <<>>, userInfo |-> {},
                        user |-> {}, users0 |-> users, store0 |-> Store]
            /\ UNCHANGED <<last, prev>>
    /\ UNCHANGED <<concVars, clock, storeVars, users, providers>>

\* mutant: a failed code exchange does not end the invocation
HC_ExchangeCode_GoesOn(ok) ==
    LET err == IF ok THEN NoErr ELSE ErrUnauthorized("Failed to exchange code")
        calls == Append(call.calls, Called("ExchangeCode", err))
    IN
    /\ call.pc = "ExchangeCode"
    /\ call' = [call EXCEPT !.pc = "GetUserInfo", !.calls = calls]
    /\ UNCHANGED <<concVars, clock, storeVars, users, providers, last, prev>>

\* lines 80-83
HC_ExchangeCode(ok) ==
    LET err == IF ok THEN NoErr ELSE ErrUnauthorized("Failed to exchange code")
        calls == Append(call.calls, Called("ExchangeCode", err))
    IN
    /\ call.pc = "ExchangeCode"
    /\ IF err = NoErr
       THEN /\ call' = [call EXCEPT !.pc = "GetUserInfo", !.calls = calls]
            /\ UNCHANGED <<last, prev>>
       ELSE Return({}, NewLuciaError("TokenExchangeError",
                                     "Failed to exchange code for token"),
                   "ok", calls)
    /\ UNCHANGED <<concVars, clock, storeVars, users, providers>>

\* lines 85-89
HC_GetUserInfo(ok) ==
    LET err == IF ok THEN NoErr ELSE ErrUnauthorized("Failed to get user info")
        calls == Append(call.calls, Called("GetUserInfo", err))
    IN
    /\ call.pc = "GetUserInfo"
    /\ IF err = NoErr
       THEN /\ call' = [call EXCEPT
                          !.pc = "GetUserByProviderID", !.calls = calls,
                          !.userInfo = {UserInfo(providers[call.provider], call.ext)}]
            /\ UNCHANGED <<last, prev>>
       ELSE Return({}, NewLuciaError("UserInfoError", "Failed to get user info"),
                   "ok", calls)
    /\ UNCHANGED <<concVars, clock, storeVars, users, providers>>

\* mutant: every lookup error is taken to mean that the user does not exist
HC_GetUserByProviderID_AnyErrorCreates(db) ==
    LET userInfo == CHOOSE u \in call.userInfo : TRUE
        r == AuthUserStore_GetUserByProviderID(users, call.provider, userInfo.ID, db)
        calls == Append(call.calls, Called("GetUserByProviderID", r.err))
    IN
    /\ call.pc = "GetUserByProviderID"
    /\ IF r.err = NoErr
       THEN \E user \in r.res :
                call' = [call EXCEPT !.pc = "CreateSession", !.calls = calls,
                                     !.user = {user}]
       ELSE call' = [call EXCEPT !.pc = "CreateUser", !.calls = calls]
    /\ UNCHANGED <<concVars, clock, storeVars, users, providers, last, prev>>

\* lines 91-93, 99-101
HC_GetUserByProviderID(db) ==
    LET userInfo == CHOOSE u \in call.userInfo : TRUE
        r == AuthUserStore_GetUserByProviderID(users, call.provider, userInfo.ID, db)
        calls == Append(call.calls, Called("GetUserByProviderID", r.err))
    IN
    /\ call.pc = "GetUserByProviderID"
    /\ IF r.err = NoErr
       THEN /\ \E user \in r.res :
                 call' = [call EXCEPT !.pc = "CreateSession", !.calls = calls,
                                      !.user = {user}]
            /\ UNCHANGED <<last, prev>>
       ELSE IF IsNotFound(r.err)
       THEN /\ call' = [call EXCEPT !.pc = "CreateUser", !.calls = calls]
            /\ UNCHANGED <<last, prev>>
       ELSE Return({}, NewLuciaError("DatabaseError", "Failed to fetch user"),
                   db, calls)
    /\ UNCHANGED <<concVars, clock, storeVars, users, providers>>

\* lines 94-98
HC_CreateUser(id, db) ==
    LET userInfo == CHOOSE u \in call.userInfo : TRUE
        r == AuthUserStore_CreateUser(users, userInfo, id, db)
        calls == Append(call.calls, Called("CreateUser", r.err))
    IN
    /\ call.pc = "CreateUser"
    /\ users' = r.store
    /\ IF r.err = NoErr
       THEN /\ call' = [call EXCEPT !.pc = "CreateSession", !.calls = calls,
                                    !.user = r.res]
            /\ UNCHANGED <<last, prev>>
       ELSE Return({}, NewLuciaError("UserCreationFailed", "Failed to create user"),
                   db, calls)
    /\ UNCHANGED <<concVars, clock, storeVars, providers>>

\* lines 104-113
HC_CreateSession(id, db) ==
    LET user == CHOOSE u \in call.user : TRUE
        session == NewSession(id, user, clock)
        r == SessionStore_CreateSession(session, db)
        calls == Append(call.calls, Called("CreateSession", r.err))
    IN
    /\ call.pc = "CreateSession"
    /\ SetStore(r.store)
    /\ IF r.err = NoErr
       THEN Return({session}, NoErr, db, calls)
       ELSE Return({}, NewLuciaError("SessionCreationFailed",
                                     "Failed to create session"), db, calls)
    /\ UNCHANGED <<concVars, clock, sessionStore, users, providers>>

\* mutant: every failure of the store is reported as a missing session
GetSession_AllNotFound(sessionID, db) ==
    LET r == SessionStore_GetSession(sessionID, db)
        calls == <<Called("GetSession", r.err)>>
        err == IF r.err = NoErr THEN NoErr
               ELSE NewLuciaError("UserSessionNotFound", "Session not found")
    IN
    /\ call.pc = "idle"
    /\ SetStore(r.store)
    /\ prev' = Brief(last)
    /\ last' = [seq |-> 1 - last.seq, op |-> "AuthService.GetSession",
                id |-> sessionID, arg |-> {}, res |-> r.res, err |-> err,
                db |-> db, calls |-> calls, ext |-> ""]
    /\ UNCHANGED <<concVars, clock, sessionStore, serviceVars>>

\* AuthService.GetSession
GetSession(sessionID, db) ==
    LET r == SessionStore_GetSession(sessionID, db)
        calls == <<Called("GetSession", r.err)>>
        err == IF r.err = NoErr THEN NoErr
               ELSE IF IsNotFound(r.err)
               THEN NewLuciaError("UserSessionNotFound", "Session not found")
               ELSE NewLuciaError("DatabaseError", "Failed to fetch session")
    IN
    /\ call.pc = "idle"
    /\ SetStore(r.store)
    /\ prev' = Brief(last)
    /\ last' = [seq |-> 1 - last.seq, op |-> "AuthService.GetSession",
                id |-> sessionID, arg |-> {}, res |-> r.res, err |-> err,
                db |-> db, calls |-> calls, ext |-> ""]
    /\ UNCHANGED <<concVars, clock, sessionStore, serviceVars>>

\* mutant: the error of the store's DeleteSession is dropped
Logout_IgnoresError(sessionID, db) ==
    LET r == SessionStore_DeleteSession(sessionID, db)
        calls == <<Called("DeleteSession", r.err)>>
    IN
    /\ call.pc = "idle"
    /\ SetStore(r.store)
    /\ LogCall("AuthService.Logout", sessionID, {}, NoErr, db, calls, "")
    /\ UNCHANGED <<concVars, clock, sessionStore, serviceVars>>

\* AuthService.Logout
Logout(sessionID, db) ==
    LET r == SessionStore_DeleteSession(sessionID, db)
        calls == <<Called("DeleteSession", r.err)>>
    IN
    /\ call.pc = "idle"
    /\ SetStore(r.store)
    /\ IF r.err = NoErr
       THEN LogCall("AuthService.Logout", sessionID, {}, NoErr, db, calls, "")
       ELSE LogCall("AuthService.Logout", sessionID, {},
                    NewLuciaError("SessionDeletionFailed", "Failed to delete session"),
                    db, calls, "")
    /\ UNCHANGED <<concVars, clock, sessionStore, serviceVars>>

\* AuthService.CreateSession
CreateSession(user, id, db) ==
    LET session == NewSession(id, user, clock)
        r == SessionStore_CreateSession(session, db)
        calls == <<Called("CreateSession", r.err)>>
    IN
    /\ call.pc = "idle"
    /\ SetStore(r.store)
    /\ IF r.err = NoErr
       THEN LogCall("AuthService.CreateSession", user.ID, {session}, NoErr, db,
                    calls, "")
       ELSE LogCall("AuthService.CreateSession", user.ID, {},
                    NewLuciaError("SessionCreationFailed", "Failed to create session"),
                    db, calls, "")
    /\ UNCHANGED <<concVars, clock, sessionStore, serviceVars>>

\* mutant: success is reported while the session stays in the store
DeleteSession_KeepsSession(sessionID, db) ==
    /\ call.pc = "idle"
    /\ LogCall("AuthService.DeleteSession", sessionID, {}, NoErr, db,
               <<Called("DeleteSession", NoErr)>>, "")
    /\ UNCHANGED <<concVars, clock, storeVars, serviceVars>>

\* AuthService.DeleteSession
DeleteSession(sessionID, db) ==
    LET r == SessionStore_DeleteSession(sessionID, db)
        calls == <<Called("DeleteSession", r.err)>>
    IN
    /\ call.pc = "idle"
    /\ SetStore(r.store)
    /\ IF r.err = NoErr
       THEN LogCall("AuthService.DeleteSession", sessionID, {}, NoErr, db, calls, "")
       ELSE LogCall("AuthService.DeleteSession", sessionID, {},
                    NewLuciaError("SessionDeletionFailed", "Failed to delete session"),
                    db, calls, "")
    /\ UNCHANGED <<concVars, clock, sessionStore, serviceVars>>

\* the users an application holds and may pass to CreateSession
KnownUsers == { users[k] : k \in DOMAIN users }

Next ==
    \/ \E d \in {DayTicks + TicksPerSec} : Advance(d)
    \/ \E reg \in Registrations : RegisterProvider(reg[1], reg[2])
    \/ \E name \in ProviderNames : GetAuthURL(name)
    \/ \E name \in ProviderNames, ext \in ExtIDs : HandleCallback(name, ext)
    \/ \E ok \in BOOLEAN : HC_ExchangeCode(ok)
    \/ \E ok \in BOOLEAN : HC_GetUserInfo(ok)
    \/ \E db \in SvcDbOutcomes : HC_GetUserByProviderID(db)
    \/ \E id \in IDs, db \in SvcDbOutcomes : HC_CreateUser(id, db)
    \/ \E id \in IDs, db \in SvcDbOutcomes : HC_CreateSession(id, db)
    \/ \E id \in IDs, db \in SvcDbOutcomes : GetSession(id, db)
    \/ \E id \in IDs, db \in SvcDbOutcomes : Logout(id, db)
    \/ \E user \in KnownUsers, id \in IDs, db \in SvcDbOutcomes :
           CreateSession(user, id, db)
    \/ \E id \in IDs, db \in SvcDbOutcomes : DeleteSession(id, db)

Spec == Init /\ [][Next]_vars

(* ------------------- properties of the session stores ------------------ *)

\* a row of the store in use, read as a Session
AsSession(x) ==
    IF sessionStore = "InMemorySessionStore" THEN x
    ELSE Session(x.id, x.user_id, ExtractEpoch(x.expires_at))

\* this step is the store operation op
StoreStep(op) == last'.seq # last.seq /\ last'.op = op

IsConflict(err) == err.family = "ApiError" /\ err.type = "Conflict"

\* C6: in every SessionStore implementation, GetSession on a stored session
\* whose expiry has passed deletes the record and reports NotFound or
\* SessionExpired, and never returns the expired session.
C6_ExpiredGetDeletesEverywhere ==
    [][ ( /\ StoreStep("GetSession")
          /\ last'.db = "ok"
          /\ last'.id \in DOMAIN Store
          /\ IsExpired(AsSession(Store[last'.id]), clock) )
        => ( /\ last'.id \notin DOMAIN Store'
             /\ last'.res = {}
             /\ last'.err.type \in {"NotFound", "SessionExpired"} ) ]_vars

\* C7: in the in-memory store, GetSession on an expired session reports
\* NotFound and leaves the record absent, and a second GetSession right
\* after it reports NotFound again.
C7_ExpiredGetTwiceNotFound ==
    [][ ( /\ StoreStep("GetSession")
          /\ sessionStore = "InMemorySessionStore"
          /\ \/ /\ last'.id \in DOMAIN sessions
                /\ IsExpired(sessions[last'.id], clock)
             \/ /\ last.op = "GetSession"
                /\ last.id = last'.id
                /\ last.err = ErrNotFound("Session expired") )
        => ( /\ IsNotFound(last'.err)
             /\ last'.res = {}
             /\ last'.id \notin DOMAIN sessions' ) ]_vars

C7_Witness ==
    /\ sessionStore = "InMemorySessionStore"
    /\ prev.op = "GetSession" /\ prev.err = ErrNotFound("Session expired")
    /\ last.op = "GetSession" /\ last.id = prev.id
    /\ IsNotFound(last.err)
    /\ last.id \notin DOMAIN sessions

\* C8: CreateSession(s) for an id not yet stored, followed immediately by
\* GetSession(s.ID) while the current instant is before s.ExpiresAt, returns
\* a Session equal to s (the database, where there is one, executing both
\* statements).
C8_CreateThenGetRoundTrip ==
    [][ ( /\ StoreStep("GetSession")
          /\ last'.db = "ok"
          /\ last.op = "CreateSession" /\ last.err = NoErr
          /\ last.id = last'.id
          /\ \A s \in last.arg : clock < TimeUnix(s.ExpiresAt) )
        => ( last'.err = NoErr /\ last'.res = last.arg ) ]_vars

C8_Witness ==
    /\ sessionStore = "PostgresStore"
    /\ prev.op = "CreateSession" /\ prev.err = NoErr
    /\ last.op = "GetSession" /\ last.id = prev.id
    /\ last.err = NoErr /\ last.res # {}

\* C9: CreateSession with an id that is already stored fails with Conflict
\* and leaves the store unchanged (the database, where there is one,
\* executing the statement): a GetSession right after it returns the session
\* stored first.
C9_DuplicateCreateConflict ==
    [][ /\ ( /\ StoreStep("CreateSession")
             /\ last'.db # "fail"
             /\ last'.id \in DOMAIN Store )
           => ( IsConflict(last'.err) /\ Store' = Store )
        /\ ( /\ StoreStep("GetSession")
             /\ last.op = "CreateSession" /\ IsConflict(last.err)
             /\ last.id = last'.id
             /\ last'.err = NoErr )
           => ( /\ last'.res = {AsSession(Store[last'.id])}
                /\ Store' = Store ) ]_vars

C9_Witness ==
    /\ prev.op = "CreateSession" /\ IsConflict(prev.err)
    /\ last.op = "GetSession" /\ last.id = prev.id
    /\ last.err = NoErr
    /\ last.res = {AsSession(Store[last.id])}

\* C10: DeleteSession on an id that is not stored fails with NotFound and
\* changes nothing; on a stored id it removes exactly that session, and a
\* GetSession for that id right after it fails with NotFound (the database,
\* where there is one, executing the statements).
C10_DeleteSession ==
    [][ /\ ( StoreStep("DeleteSession") /\ last'.db = "ok" )
           => IF last'.id \in DOMAIN Store
              THEN last'.err = NoErr /\ Store' = Del(Store, last'.id)
              ELSE IsNotFound(last'.err) /\ Store' = Store
        /\ ( /\ StoreStep("GetSession")
             /\ last'.db = "ok"
             /\ last.op = "DeleteSession" /\ last.err = NoErr
             /\ last.id = last'.id )
           => ( IsNotFound(last'.err) /\ last'.res = {} ) ]_vars

C10_Witness ==
    /\ prev.op = "DeleteSession" /\ prev.err = NoErr
    /\ last.op = "GetSession" /\ last.id = prev.id
    /\ IsNotFound(last.err)
    /\ DOMAIN Store # {}

(* --------------------- properties of the AuthService ------------------- *)

\* the step completes a call `op` made on the AuthService
ServiceStep(op) == last'.seq # last.seq /\ last'.op = op

\* the state of the user store and of the session store when the
\* HandleCallback completed by this step was invoked
Users0 == IF call.pc = "idle" THEN users ELSE call.users0
Store0 == IF call.pc = "idle" THEN Store ELSE call.store0

\* the names of the dependency calls of a logged call
Fns(calls) == { calls[i].fn : i \in 1..Len(calls) }

LuciaErr(err, type) == err.family = "LuciaError" /\ err.type = type

\* the logged call is a HandleCallback for external user `ext` of `name`
IsCallback(e, name, ext) ==
    e.op = "AuthService.HandleCallback" /\ e.id = name /\ e.ext = ext

\* C1: a HandleCallback whose dependency calls all succeed, made when no User
\* exists for the external user, adds exactly one User and exactly one
\* Session; a second such HandleCallback for the same external user adds no
\* User and adds exactly one Session.
C1_CallbackCreatesUserOnce ==
    [][ (ServiceStep("AuthService.HandleCallback") /\ last'.err = NoErr) =>
          LET name == last'.id
              ext == last'.ext
              known == { k \in DOMAIN Users0 :
                           Users0[k].Provider = name /\ Users0[k].ProviderID = ext }
          IN
          /\ known = {} =>
               /\ Cardinality(DOMAIN users') = Cardinality(DOMAIN Users0) + 1
               /\ Cardinality(DOMAIN Store') = Cardinality(DOMAIN Store0) + 1
          /\ (IsCallback(last, name, ext) /\ last.err = NoErr) =>
               /\ users' = Users0
               /\ Cardinality(DOMAIN Store') = Cardinality(DOMAIN Store0) + 1
      ]_vars

\* the dependency call made by a step of HandleCallback
StepCall == IF call'.pc = "idle" THEN last'.calls[Len(last'.calls)]
            ELSE call'.calls[Len(call'.calls)]
\* the step returns from HandleCallback with a LuciaError of this type and
\* without a Session
Fails(type) ==
    /\ call'.pc = "idle"
    /\ ServiceStep("AuthService.HandleCallback")
    /\ LuciaErr(last'.err, type)
    /\ last'.res = {}

\* C2: HandleCallback returns TokenExchangeError when ExchangeCode fails,
\* UserInfoError when GetUserInfo fails, DatabaseError when
\* GetUserByProviderID fails with an error that is not a not-found error,
\* UserCreationFailed when CreateUser fails, SessionCreationFailed when the
\* store's CreateSession fails, and the created Session with no error when
\* none of these calls fails.
C2_CallbackErrorMapping ==
    [][ (call.pc # "idle" /\ call' # call) =>
          LET c == StepCall IN
          CASE c.fn = "ExchangeCode" /\ c.err # NoErr ->
                 Fails("TokenExchangeError")
            [] c.fn = "GetUserInfo" /\ c.err # NoErr ->
                 Fails("UserInfoError")
            [] c.fn = "GetUserByProviderID" /\ c.err # NoErr
                                            /\ ~IsNotFound(c.err) ->
                 Fails("DatabaseError")
            [] c.fn = "CreateUser" /\ c.err # NoErr ->
                 Fails("UserCreationFailed")
            [] c.fn = "CreateSession" /\ c.err # NoErr ->
                 Fails("SessionCreationFailed")
            [] c.fn = "CreateSession" /\ c.err = NoErr ->
                 /\ call'.pc = "idle"
                 /\ ServiceStep("AuthService.HandleCallback")
                 /\ last'.err = NoErr
                 /\ \E s \in last'.res :
                      /\ last'.res = {s}
                      /\ s.ID \in DOMAIN Store' /\ s.ID \notin DOMAIN Store
                      /\ AsSession(Store'[s.ID]) = s
            [] OTHER -> call'.pc # "idle"
      ]_vars

\* a HandleCallback has returned DatabaseError after a lookup that failed
\* with an error other than not-found
C2_Witness ==
    /\ last.op = "AuthService.HandleCallback"
    /\ LuciaErr(last.err, "DatabaseError")
    /\ Len(last.calls) = 3
    /\ last.calls[3].fn = "GetUserByProviderID"
    /\ last.calls[3].err # NoErr /\ ~IsNotFound(last.calls[3].err)

\* C3: HandleCallback and GetAuthURL given a name that is not registered
\* return UnknownProvider, call no provider and leave the user store and the
\* session store unchanged.
C3_UnknownProvider ==
    [][ ((ServiceStep("AuthService.HandleCallback")
          \/ ServiceStep("AuthService.GetAuthURL"))
         /\ last'.id \notin DOMAIN providers) =>
          /\ LuciaErr(last'.err, "UnknownProvider")
          /\ last'.res = {}
          /\ last'.calls = <<>>
          /\ users' = users
          /\ Store' = Store
          /\ call' = call
      ]_vars

\* both operations have been refused for a name that is not registered
C3_Witness ==
    /\ last.op = "AuthService.HandleCallback"
    /\ last.id \notin DOMAIN providers
    /\ LuciaErr(last.err, "UnknownProvider")
    /\ DOMAIN providers # {}
    /\ DOMAIN users # {}

\* C4: when HandleCallback has created a User and the store's CreateSession
\* then fails, it returns SessionCreationFailed, the User stays in the user
\* store and no Session is stored; a later HandleCallback for the same
\* external user finds that User and does not create another.
C4_UserSurvivesSessionFailure ==
    [][ ServiceStep("AuthService.HandleCallback") =>
          /\ (call.pc = "CreateSession" /\ "CreateUser" \in Fns(last'.calls)
              /\ last'.err # NoErr) =>
               /\ LuciaErr(last'.err, "SessionCreationFailed")
               /\ \A u \in call.user : u.ID \in DOMAIN users' /\ users'[u.ID] = u
               /\ Cardinality(DOMAIN users') = Cardinality(DOMAIN Users0) + 1
               /\ Store' = Store0
          /\ (IsCallback(last, last'.id, last'.ext)
              /\ LuciaErr(last.err, "SessionCreationFailed")
              /\ "CreateUser" \in Fns(last.calls)
              /\ "GetUserByProviderID" \in Fns(last'.calls)
              /\ last'.calls[Len(last'.calls)].fn # "GetUserByProviderID") =>
               /\ "CreateUser" \notin Fns(last'.calls)
               /\ users' = Users0
      ]_vars

\* C5: the Session returned by HandleCallback or CreateSession carries the
\* ID of the resolved user, expires 86400 seconds after the time of creation
\* and is in the session store; AuthService.GetSession called with its ID
\* right after returns that Session.
C5_ReturnedSession ==
    [][ /\ ((ServiceStep("AuthService.HandleCallback")
             \/ ServiceStep("AuthService.CreateSession")) /\ last'.err = NoErr) =>
              \E s \in last'.res :
                 /\ last'.res = {s}
                 /\ IF last'.op = "AuthService.HandleCallback"
                    THEN /\ \A u \in call.user : s.UserID = u.ID
                         /\ s.UserID \in DOMAIN users'
                         /\ users'[s.UserID].ProviderID = last'.ext
                    ELSE s.UserID = last'.id
                 /\ s.ExpiresAt = Unix(clock) + 86400
                 /\ s.ID \in DOMAIN Store'
                 /\ AsSession(Store'[s.ID]) = s
        /\ (/\ ServiceStep("AuthService.GetSession")
            /\ last'.db = "ok"
            /\ last.op \in {"AuthService.HandleCallback",
                            "AuthService.CreateSession"}
            /\ last.err = NoErr
            /\ \E s \in last.res : s.ID = last'.id) =>
              /\ last'.err = NoErr
              /\ last'.res = last.res
      ]_vars

\* a Session returned by HandleCallback has been read back right after
C5_Witness ==
    /\ prev.op = "AuthService.HandleCallback" /\ prev.err = NoErr
    /\ last.op = "AuthService.GetSession" /\ last.err = NoErr
    /\ \E s \in last.res :
         /\ s.ID = last.id
         /\ s.ExpiresAt = Unix(clock) + 86400
         /\ s.UserID \in DOMAIN users

\* the error of the single store call made by the last AuthService call
StoreErr(e) == e.calls[1].err

\* C11: AuthService.GetSession returns the store's session unchanged on
\* success, fails with UserSessionNotFound exactly when the store's
\* GetSession reports a NotFound error, and with DatabaseError for every
\* other failure of the store.
C11_GetSessionTranslation ==
    [][ ServiceStep("AuthService.GetSession") =>
          LET r == SessionStore_GetSession(last'.id, last'.db) IN
          /\ Len(last'.calls) = 1 /\ last'.calls[1] = Called("GetSession", r.err)
          /\ r.err = NoErr => last'.err = NoErr /\ last'.res = r.res
                                /\ r.res = {AsSession(Store[last'.id])}
          /\ LuciaErr(last'.err, "UserSessionNotFound") <=> IsNotFound(r.err)
          /\ (r.err # NoErr /\ ~IsNotFound(r.err)) =>
                LuciaErr(last'.err, "DatabaseError") /\ last'.res = {}
          /\ r.err # NoErr => last'.err # NoErr
      ]_vars

\* a read of an expired row of the Postgres store: the store reports
\* Unauthorized, the service DatabaseError
C11_Witness ==
    /\ last.op = "AuthService.GetSession"
    /\ LuciaErr(last.err, "DatabaseError")
    /\ last.db = "ok"
    /\ StoreErr(last) = ErrUnauthorized("Session expired")

\* C12: Logout and DeleteSession delegate to the store's DeleteSession; when
\* the store reports not-found they fail with SessionDeletionFailed and the
\* session store is unchanged, when the store succeeds they return no error
\* and the session is gone.
C12_LogoutDelegates ==
    [][ (ServiceStep("AuthService.Logout")
         \/ ServiceStep("AuthService.DeleteSession")) =>
          LET r == SessionStore_DeleteSession(last'.id, last'.db) IN
          /\ last'.calls = <<Called("DeleteSession", r.err)>>
          /\ Store' = r.store
          /\ IsNotFound(r.err) =>
                /\ LuciaErr(last'.err, "SessionDeletionFailed")
                /\ Store' = Store
          /\ r.err = NoErr =>
                /\ last'.err = NoErr
                /\ last'.id \in DOMAIN Store
                /\ last'.id \notin DOMAIN Store'
                /\ \A k \in DOMAIN Store \ {last'.id} :
                      k \in DOMAIN Store' /\ Store'[k] = Store[k]
      ]_vars

\* a Logout of a session that is not stored, other sessions being stored
C12_Witness ==
    /\ last.op = "AuthService.Logout"
    /\ LuciaErr(last.err, "SessionDeletionFailed")
    /\ IsNotFound(StoreErr(last))
    /\ DOMAIN Store # {}

(* ------------------- session middleware and guard ---------------------- *)

\* AuthService.GetSession as a function of the store's content
AuthService_GetSession(m, sessionID, t, db) ==
    LET r == IF sessionStore = "InMemorySessionStore"
             THEN InMemorySessionStore_GetSession(m, sessionID, t)
             ELSE PostgresStore_GetSession(m, sessionID, t, db)
    IN [store |-> r.store,
        res |-> r.res,
        err |-> IF r.err = NoErr THEN NoErr
                ELSE IF IsNotFound(r.err)
                THEN NewLuciaError("UserSessionNotFound", "Session not found")
                ELSE NewLuciaError("DatabaseError", "Failed to fetch session"),
        storeErr |-> r.err]

UserSession(id, userID, expiresAt) ==
    [ID |-> id, UserID |-> userID, ExpiresAt |-> expiresAt]
\* UserSession.IsExpired: ExpiresAt.Before(time.Now())
UserSession_IsExpired(us, t) == us.ExpiresAt < t

\* PostgresRepository.GetSession; `row` is what the query finds in the
\* user_session table (no row, or the row of that id)
PostgresRepository_GetSession(row, t, db) ==
    IF db = "fail"
    THEN [res |-> {}, err |-> NewLuciaError("DatabaseQueryError", "query failed")]
    ELSE IF row = {}
    THEN [res |-> {},
          err |-> NewLuciaError("UserSessionNotFound", "User session not found")]
    ELSE IF \E us \in row : UserSession_IsExpired(us, t)
    THEN [res |-> {},
          err |-> NewLuciaError("SessionExpired", "User session has expired")]
    ELSE [res |-> row, err |-> NoErr]

\* Service.ValidateSession
Service_ValidateSession(row, t, db) ==
    LET r == PostgresRepository_GetSession(row, t, db) IN
    IF r.err # NoErr THEN r
    ELSE IF \E us \in r.res : UserSession_IsExpired(us, t)
    THEN [res |-> {},
          err |-> NewLuciaError("SessionExpired", "User session has expired")]
    ELSE r

\* the handler chains an application may mount; "Handler" is its own
\* handler, which ends the chain
ChainOf ==
    [generic |-> <<"AuthMiddleware.SessionMiddleware",
                   "AuthMiddleware.RequireAuth", "Handler">>,
     genericOpen |-> <<"AuthMiddleware.SessionMiddleware", "Handler">>,
     genericGuard |-> <<"AuthMiddleware.RequireAuth", "Handler">>,
     plain |-> <<"SessionMiddleware", "RequireAuth", "Handler">>,
     plainOpen |-> <<"SessionMiddleware", "Handler">>,
     plainGuard |-> <<"RequireAuth", "Handler">>]
ChainNames == DOMAIN ChainOf

\* a value stored with c.Locals("session", v), tagged with its Go type
Local(type, v) == [type |-> type, val |-> v]

\* the request context when the request arrives
NewCtx(cookie) == [cookie |-> cookie, locals |-> {}, cleared |-> FALSE]

\* GetSession(c) of each variant: the type assertion on the local value
GetSessionOf(type, c) == { l.val : l \in { x \in c.locals : x.type = type } }

\* what running a chain gives: the store, the context, the error returned
\* to the framework and the handlers invoked with the error each returned
Ran(store, c, err, ran) == [store |-> store, c |-> c, err |-> err, ran |-> ran]

\* what a handler does before it returns: `next` tells whether it returns
\* c.Next() or the error `err`
Pass(c, store) == [c |-> c, store |-> store, next |-> TRUE, err |-> NoErr]
Stop(c, store, err) == [c |-> c, store |-> store, next |-> FALSE, err |-> err]

\* AuthMiddleware.SessionMiddleware (generic variant)
AuthMiddleware_SessionMiddleware(c, store, t, db) ==
    IF c.cookie = "" THEN Pass(c, store)
    ELSE LET g == AuthService_GetSession(store, c.cookie, t, db) IN
         IF g.err # NoErr
         THEN IF g.err.family = "LuciaError" /\ g.err.type = "UserSessionNotFound"
              THEN Stop([c EXCEPT !.cleared = TRUE], g.store,
                        ErrUnauthorized("Session not found"))
              ELSE Pass([c EXCEPT !.cleared = TRUE], g.store)
         ELSE Pass([c EXCEPT !.locals = { Local("*Session", s) : s \in g.res }],
                   g.store)

\* mutant: the guard lets every request through
AuthMiddleware_RequireAuth_AlwaysPass(c, store) == Pass(c, store)

\* AuthMiddleware.RequireAuth (generic variant)
AuthMiddleware_RequireAuth(c, store) ==
    IF GetSessionOf("*Session", c) = {}
    THEN Stop(c, store, ErrUnauthorized("Authentication required"))
    ELSE Pass(c, store)

\* SessionMiddleware (non-generic variant, on Service.ValidateSession)
SessionMiddleware(c, store, row, t, db) ==
    IF c.cookie = ""
    THEN Stop(c, store, NewLuciaError("InvalidSessionId", "No session ID provided"))
    ELSE LET v == Service_ValidateSession(row, t, db) IN
         IF v.err # NoErr THEN Stop(c, store, v.err)
         ELSE Pass([c EXCEPT !.locals = { Local("*UserSession", us) : us \in v.res }],
                   store)

\* RequireAuth (non-generic variant)
RequireAuth(c, store) ==
    IF GetSessionOf("*UserSession", c) = {}
    THEN Stop(c, store, NewLuciaError("Unauthorized", "Authentication required"))
    ELSE Pass(c, store)

\* the framework runs the chain: each handler runs the rest with c.Next()
RECURSIVE RunChain(_, _, _, _)
RunChain(chain, c, store, env) ==
    IF chain = <<>>
    THEN Ran(store, c, [family |-> "fiber.Error", type |-> "NotFound",
                        msg |-> "Cannot GET"], <<>>)
    ELSE
    LET h == Head(chain)
        r == CASE h = "AuthMiddleware.SessionMiddleware" ->
                    AuthMiddleware_SessionMiddleware(c, store, env.t, env.db)
               [] h = "AuthMiddleware.RequireAuth" ->
                    AuthMiddleware_RequireAuth(c, store)
               [] h = "SessionMiddleware" ->
                    SessionMiddleware(c, store, env.row, env.t, env.db)
               [] h = "RequireAuth" -> RequireAuth(c, store)
               [] OTHER -> Stop(c, store, NoErr)
        rest == RunChain(Tail(chain), r.c, r.store, env)
    IN IF r.next
       THEN Ran(rest.store, rest.c, rest.err, <<Called(h, rest.err)>> \o rest.ran)
       ELSE Ran(r.store, r.c, r.err, <<Called(h, r.err)>>)

(* ---------------------------- ErrorHandler ----------------------------- *)

\* an error wrapped with github.com/pkg/errors: Cause gives the inner error
Wrapped(err) == [family |-> "wrapped", type |-> "", msg |-> "wrapped: " \o err.msg,
                 cause |-> err]
Cause(err) == IF err.family = "wrapped" THEN err.cause ELSE err

\* handleApiError
handleApiError(e) ==
    CASE e.type \in {"ParseError", "UnexpectedError", "DatabaseError"} ->
           [code |-> 500, message |-> e.msg]
      [] e.type = "NotFound" -> [code |-> 404, message |-> e.msg]
      [] e.type = "BadRequest" -> [code |-> 400, message |-> e.msg]
      [] e.type = "Forbidden" -> [code |-> 403, message |-> e.msg]
      [] e.type = "Unauthorized" -> [code |-> 401, message |-> e.msg]
      [] e.type = "Conflict" -> [code |-> 409, message |-> e.msg]
      [] e.type = "ServiceUnavailable" -> [code |-> 503, message |-> e.msg]
      [] OTHER -> [code |-> 500, message |-> e.msg]

\* handleLuciaError
handleLuciaError(le) ==
    CASE le.type \in {"DatabaseConnectionError", "DatabaseQueryError",
                      "UserSessionTableNotExist", "AuthUserTableNotExist",
                      "SessionCreationFailed", "SessionDeletionFailed",
                      "UserCreationFailed", "UserUpdateFailed", "EncryptionError",
                      "DecryptionError", "ConfigurationError", "UnexpectedError"} ->
           [code |-> 500, message |-> le.msg]
      [] le.type = "UserSessionNotFound" -> [code |-> 404, message |-> le.msg]
      [] le.type = "InvalidSessionId" -> [code |-> 400, message |-> le.msg]
      [] le.type \in {"SessionExpired", "InvalidCredentials", "InvalidToken",
                      "TokenExpired"} ->
           [code |-> 401, message |-> le.msg]
      [] le.type = "DuplicateUserError" -> [code |-> 409, message |-> le.msg]
      [] OTHER -> [code |-> 500, message |-> le.msg]

\* mutant: an error of neither family is rendered with its own text
ErrorHandler_Leaks(err) ==
    IF Cause(err).family = "ApiError" THEN handleApiError(Cause(err))
    ELSE IF Cause(err).family = "LuciaError" THEN handleLuciaError(Cause(err))
    ELSE [code |-> 500, message |-> err.msg]

\* ErrorHandler: the status and the "error" field of the JSON body
ErrorHandler(err) ==
    IF Cause(err).family = "ApiError" THEN handleApiError(Cause(err))
    ELSE IF Cause(err).family = "LuciaError" THEN handleLuciaError(Cause(err))
    ELSE [code |-> 500, message |-> "Internal Server Error"]

\* the response to a request whose chain returned err: the framework calls
\* the configured ErrorHandler when err is not nil
Respond(err) == IF err = NoErr THEN {} ELSE {ErrorHandler(err)}

\* the expiry instants of the rows of the user_session table
RowExpiries == {TimeUnix(StartSec) + 1, TimeUnix(StartSec + SessionTTL)}
\* what the user_session table holds for a cookie: no row, or a row
RowsFor(cookie) ==
    IF cookie = "" THEN {{}}
    ELSE {{}} \cup { {UserSession(cookie, "id1", e)} : e \in RowExpiries }

\* a request with this session cookie ("" when absent) served by a chain
Request(chainName, cookie, row, db) ==
    LET r == RunChain(ChainOf[chainName], NewCtx(cookie), Store,
                      [t |-> clock, db |-> db, row |-> row])
    IN
    /\ call.pc = "idle"
    /\ SetStore(r.store)
    /\ prev' = Brief(NoOp)
    /\ last' = [seq |-> 1 - last.seq, op |-> "Request", id |-> cookie,
                arg |-> row, res |-> { l.val : l \in r.c.locals }, err |-> r.err,
                db |-> db, calls |-> r.ran, ext |-> chainName,
                cleared |-> r.c.cleared, response |-> Respond(r.err)]
    /\ UNCHANGED <<concVars, clock, sessionStore, serviceVars>>

\* requests against a session store that an application fills and that ages
WebNext ==
    \/ \E d \in {1, DayTicks} : Advance(d)
    \/ \E s \in NewSessions : Store_CreateSession(s, "ok")
    \/ \E chainName \in {"generic", "genericOpen"}, cookie \in IDs,
          db \in SvcDbOutcomes :
           Request(chainName, cookie, {}, db)
    \/ \E chainName \in {"generic", "genericOpen"} :
           Request(chainName, "", {}, "ok")
    \/ \E cookie \in IDs \cup {""} : Request("genericGuard", cookie, {}, "ok")
    \/ \E chainName \in {"plain", "plainOpen"}, db \in {"ok", "fail"} :
           \E row \in RowsFor("id1") : Request(chainName, "id1", row, db)
    \/ \E chainName \in {"plain", "plainOpen"} : Request(chainName, "", {}, "ok")
    \/ \E cookie \in {"", "id1"} : Request("plainGuard", cookie, {}, "ok")

WebSpec == Init /\ [][WebNext]_vars

(* ------------------ properties of the middleware chain ----------------- *)

\* the step serves a request
RequestStep == last'.seq # last.seq /\ last'.op = "Request"

IsUnauthorized(err) == err.type = "Unauthorized"
ResolutionHandlers == {"AuthMiddleware.SessionMiddleware", "SessionMiddleware"}
GuardHandlers == {"AuthMiddleware.RequireAuth", "RequireAuth"}

\* C13: the require-auth guard fails with Unauthorized and does not invoke
\* the next handler when session resolution stored no session; a handler
\* behind session resolution followed by the guard runs only for a request
\* whose cookie named a session that the lookup returned successfully
\* (stored and not expired at resolution time).
C13_GuardRequiresSession ==
    [][ RequestStep =>
          LET ran == last'.calls IN
          /\ \A i \in 1..Len(ran) :
               (ran[i].fn \in GuardHandlers /\ last'.res = {}) =>
                  /\ IsUnauthorized(ran[i].err)
                  /\ i = Len(ran)
                  /\ "Handler" \notin Fns(ran)
          /\ (last'.ext \in {"generic", "plain"} /\ "Handler" \in Fns(ran)) =>
               /\ last'.id # ""
               /\ last'.db = "ok"
               /\ IF last'.ext = "generic"
                  THEN /\ last'.id \in DOMAIN Store
                       /\ ~IsExpired(AsSession(Store[last'.id]), clock)
                       /\ last'.res = {AsSession(Store[last'.id])}
                  ELSE /\ last'.arg # {}
                       /\ \A us \in last'.arg : ~UserSession_IsExpired(us, clock)
                       /\ last'.res = last'.arg
      ]_vars

\* the guard has refused a request that carried the id of an expired
\* session of the Postgres store
C13_Witness ==
    /\ last.op = "Request" /\ last.ext = "generic"
    /\ sessionStore = "PostgresStore"
    /\ last.id \in DOMAIN Store
    /\ Len(last.calls) = 2
    /\ last.db = "ok"
    /\ AsSession(Store[last.id]).ExpiresAt < Unix(clock)
    /\ last.calls[2].fn = "AuthMiddleware.RequireAuth"
    /\ IsUnauthorized(last.err)

\* C14: when the session cookie is absent, the session-resolution middleware
\* invokes the next handler with no resolved session and does not fail the
\* request.
C14_AbsentCookiePasses ==
    [][ (RequestStep /\ last'.id = ""
         /\ last'.calls[1].fn \in ResolutionHandlers) =>
          /\ Len(last'.calls) >= 2
          /\ last'.res = {}
          /\ last'.ext \in {"genericOpen", "plainOpen"} =>
               last'.err = NoErr /\ "Handler" \in Fns(last'.calls)
      ]_vars

\* the store reported the session as not found or as expired
ReportedMissing(err) == IsNotFound(err) \/ err.msg = "Session expired"

\* C15: when the cookie is present and the service's GetSession fails,
\* AuthMiddleware.SessionMiddleware clears the cookie and stores no session;
\* it fails the request with Unauthorized when the session is reported
\* not-found or expired, and otherwise invokes the next handler
\* unauthenticated.
C15_FailedLookup ==
    [][ (RequestStep /\ last'.id # ""
         /\ last'.calls[1].fn = "AuthMiddleware.SessionMiddleware") =>
          LET g == AuthService_GetSession(Store, last'.id, clock, last'.db) IN
          g.err # NoErr =>
             /\ last'.cleared
             /\ last'.res = {}
             /\ IF ReportedMissing(g.storeErr)
                THEN /\ last'.calls = <<Called("AuthMiddleware.SessionMiddleware",
                                               last'.err)>>
                     /\ IsUnauthorized(last'.err)
                ELSE Len(last'.calls) >= 2
      ]_vars

(* ---------------------- OAuth tokens and providers --------------------- *)

\* bufferTime of NeedsRefresh, in seconds
bufferTime == 300
\* the lifetime GitHubProvider.ExchangeCode gives a token: 8 * time.Hour
GitHubTokenTTL == 28800

OAuthToken(accessToken, refreshToken, expiresIn) ==
    [AccessToken |-> accessToken, RefreshToken |-> refreshToken,
     ExpiresIn |-> expiresIn]

ProviderKinds == {"GoogleProvider", "GitHubProvider"}
\* what happens to a request sent to the identity provider: answered with
\* 200 and a body that decodes, not sent or not answered, answered with
\* another status, answered with a body that does not decode
NetOutcomes == {"ok", "transport", "status", "decode"}

\* the expiry times of the tokens an application holds (0: none recorded)
TokenExpiries == {0} \cup { StartSec + k : k \in 299..302 }
Tokens == { OAuthToken("at1", r, e) : r \in {"", "rt1"}, e \in TokenExpiries }
\* the tokens an identity provider may answer with
\* (ExpiresIn = 0: the answer carries no expiry)
IssuedTokens ==
    { OAuthToken("at2", r, e) : r \in {"", "rt2"}, e \in {0, StartSec + 3600} }

\* time.Time{}.Unix(), the Unix time of the zero time.Time (1 January of
\* year 1), which is -62135596800; scaled down to the range of the model's
\* integers: it is negative and far below every instant of the clock
ZeroTimeUnix == -62135596

\* token.Expiry.Unix() of the oauth2.Token built from the provider's answer:
\* Expiry is the zero time.Time when the answer carries no expiry
Expiry_Unix(issued) ==
    IF issued.ExpiresIn = 0 THEN ZeroTimeUnix ELSE issued.ExpiresIn

\* mutant: the buffer is compared strictly
OAuthToken_NeedsRefresh_Strict(tok, t) ==
    IF tok.ExpiresIn = 0 THEN FALSE
    ELSE Unix(t) + bufferTime > tok.ExpiresIn

\* OAuthToken.NeedsRefresh
OAuthToken_NeedsRefresh(tok, t) ==
    IF tok.ExpiresIn = 0 THEN FALSE
    ELSE Unix(t) + bufferTime >= tok.ExpiresIn

\* a network call of a provider: its argument, what happened to the request
\* and the error the method returned
CalledWith(fn, arg, net, err) == [fn |-> fn, arg |-> arg, net |-> net, err |-> err]

\* GoogleProvider.RefreshToken: every failure of the token source is
\* reported as Unauthorized
GoogleProvider_RefreshToken(refreshToken, net, issued) ==
    IF net # "ok"
    THEN [res |-> {}, err |-> ErrUnauthorized("Failed to refresh token")]
    ELSE [res |-> {[issued EXCEPT !.ExpiresIn = Expiry_Unix(issued)]},
          err |-> NoErr]

\* GitHubProvider.RefreshToken
GitHubProvider_RefreshToken(refreshToken, net, issued) ==
    CASE net = "transport" ->
           [res |-> {}, err |-> NewApiError("UnexpectedError", "Failed to refresh token")]
      [] net = "status" ->
           [res |-> {}, err |-> ErrUnauthorized("Failed to refresh token")]
      [] net = "decode" ->
           [res |-> {}, err |-> NewApiError("UnexpectedError",
                                            "Failed to decode refresh token response")]
      [] OTHER ->
           [res |-> {IF issued.RefreshToken = ""
                     THEN [issued EXCEPT !.RefreshToken = refreshToken]
                     ELSE issued},
            err |-> NoErr]

OAuthProvider_RefreshToken(kind, refreshToken, net, issued) ==
    IF kind = "GoogleProvider"
    THEN GoogleProvider_RefreshToken(refreshToken, net, issued)
    ELSE GitHubProvider_RefreshToken(refreshToken, net, issued)

\* the assignments that copy a refreshed token into the token in use
Refreshed(tok, newToken) ==
    [AccessToken |-> newToken.AccessToken,
     ExpiresIn |-> newToken.ExpiresIn,
     RefreshToken |-> IF newToken.RefreshToken # "" THEN newToken.RefreshToken
                      ELSE tok.RefreshToken]

\* mutant: the refresh token is overwritten even by an empty one
OAuthToken_RefreshIfNeeded_Overwrites(tok, t, kind, net, issued) ==
    IF OAuthToken_NeedsRefresh(tok, t) /\ tok.RefreshToken # ""
    THEN LET r == OAuthProvider_RefreshToken(kind, tok.RefreshToken, net, issued)
             calls == <<CalledWith("RefreshToken", tok.RefreshToken, net, r.err)>>
         IN IF r.err # NoErr
            THEN [token |-> tok, err |-> r.err, calls |-> calls, got |-> {}]
            ELSE [token |-> CHOOSE n \in r.res : TRUE, err |-> NoErr,
                  calls |-> calls, got |-> r.res]
    ELSE [token |-> tok, err |-> NoErr, calls |-> <<>>, got |-> {}]

\* mutant: a failed refresh is not reported
OAuthToken_RefreshIfNeeded_SwallowsError(tok, t, kind, net, issued) ==
    IF OAuthToken_NeedsRefresh(tok, t) /\ tok.RefreshToken # ""
    THEN LET r == OAuthProvider_RefreshToken(kind, tok.RefreshToken, net, issued)
             calls == <<CalledWith("RefreshToken", tok.RefreshToken, net, r.err)>>
         IN IF r.err # NoErr
            THEN [token |-> tok, err |-> NoErr, calls |-> calls, got |-> {}]
            ELSE [token |-> Refreshed(tok, CHOOSE n \in r.res : TRUE),
                  err |-> NoErr, calls |-> calls, got |-> r.res]
    ELSE [token |-> tok, err |-> NoErr, calls |-> <<>>, got |-> {}]

\* OAuthToken.RefreshIfNeeded: the token after the call, the error, the
\* provider calls made and the token the provider returned
OAuthToken_RefreshIfNeeded(tok, t, kind, net, issued) ==
    IF OAuthToken_NeedsRefresh(tok, t) /\ tok.RefreshToken # ""
    THEN LET r == OAuthProvider_RefreshToken(kind, tok.RefreshToken, net, issued)
             calls == <<CalledWith("RefreshToken", tok.RefreshToken, net, r.err)>>
         IN IF r.err # NoErr
            THEN [token |-> tok, err |-> r.err, calls |-> calls, got |-> {}]
            ELSE [token |-> Refreshed(tok, CHOOSE n \in r.res : TRUE),
                  err |-> NoErr, calls |-> calls, got |-> r.res]
    ELSE [token |-> tok, err |-> NoErr, calls |-> <<>>, got |-> {}]

\* UserInfo with the token it embeds
UserInfoWithToken(kind, ext, tok) ==
    [ID |-> ext, Email |-> Profile(ext).Email, Name |-> Profile(ext).Name,
     Provider |-> ProviderTag(kind), Token |-> tok]

\* the refresh at the head of GetUserInfo (the same lines in both providers)
GetUserInfo_Refresh(kind, tok, t, net, issued) ==
    IF OAuthToken_NeedsRefresh(tok, t)
    THEN LET r == OAuthProvider_RefreshToken(kind, tok.RefreshToken, net, issued)
             calls == <<CalledWith("RefreshToken", tok.RefreshToken, net, r.err)>>
         IN IF r.err # NoErr
            THEN [token |-> tok, err |-> r.err, calls |-> calls, got |-> {}]
            ELSE [token |-> Refreshed(tok, CHOOSE n \in r.res : TRUE),
                  err |-> NoErr, calls |-> calls, got |-> r.res]
    ELSE [token |-> tok, err |-> NoErr, calls |-> <<>>, got |-> {}]

\* the error of GoogleProvider's profile request
GoogleProvider_ProfileError(net) ==
    CASE net = "transport" -> ErrUnauthorized("Failed to get user info")
      [] net = "status" -> ErrUnauthorized("Failed to get user info: status code")
      [] net = "decode" -> NewApiError("UnexpectedError", "Failed to decode user info")
      [] OTHER -> NoErr

\* the error of GitHubProvider's profile request
GitHubProvider_ProfileError(net) ==
    CASE net = "transport" -> NewApiError("UnexpectedError", "Failed to get user info")
      [] net = "status" -> ErrUnauthorized("Failed to get user info: status code")
      [] net = "decode" -> NewApiError("UnexpectedError", "Failed to decode user info")
      [] OTHER -> NoErr

\* GoogleProvider.GetUserInfo / GitHubProvider.GetUserInfo: the token after
\* the call (it is updated in place), the UserInfo, the error, the calls
OAuthProvider_GetUserInfo(kind, tok, t, ext, netRefresh, issued, netProfile) ==
    LET f == GetUserInfo_Refresh(kind, tok, t, netRefresh, issued)
        perr == IF kind = "GoogleProvider" THEN GoogleProvider_ProfileError(netProfile)
                ELSE GitHubProvider_ProfileError(netProfile)
        calls == Append(f.calls, CalledWith("GetProfile", f.token.AccessToken, netProfile,
                                         perr))
    IN IF f.err # NoErr
       THEN [token |-> f.token, res |-> {}, err |-> f.err, calls |-> f.calls]
       ELSE IF perr # NoErr
       THEN [token |-> f.token, res |-> {}, err |-> perr, calls |-> calls]
       ELSE [token |-> f.token, res |-> {UserInfoWithToken(kind, ext, f.token)},
             err |-> NoErr, calls |-> calls]

\* GoogleProvider.ExchangeCode: every failure of the exchange is reported
\* as Unauthorized
GoogleProvider_ExchangeCode(net, issued) ==
    IF net # "ok"
    THEN [res |-> {}, err |-> ErrUnauthorized("Failed to exchange code")]
    ELSE [res |-> {[issued EXCEPT !.ExpiresIn = Expiry_Unix(issued)]},
          err |-> NoErr]

\* GitHubProvider.ExchangeCode
GitHubProvider_ExchangeCode(net, issued, t) ==
    CASE net = "transport" ->
           [res |-> {}, err |-> NewApiError("UnexpectedError", "Failed to exchange code")]
      [] net = "status" ->
           [res |-> {}, err |-> ErrUnauthorized("Failed to exchange code: status code")]
      [] net = "decode" ->
           [res |-> {}, err |-> NewApiError("UnexpectedError",
                                            "Failed to decode token response")]
      [] OTHER ->
           [res |-> {[issued EXCEPT !.ExpiresIn = Unix(t) + GitHubTokenTTL]},
            err |-> NoErr]

OAuthProvider_ExchangeCode(kind, net, issued, t) ==
    IF kind = "GoogleProvider" THEN GoogleProvider_ExchangeCode(net, issued)
    ELSE GitHubProvider_ExchangeCode(net, issued, t)

\* the log entry of a call on a token or on a provider: the token before
\* and after, the provider's answer, the value returned
TokenLog(op, kind, tok, after, ret, err, net, calls, issued) ==
    /\ prev' = Brief(NoOp)
    /\ last' = [seq |-> 1 - last.seq, op |-> op, id |-> kind, arg |-> tok,
                res |-> after, err |-> err, db |-> net, calls |-> calls,
                ext |-> "", ret |-> ret, issued |-> issued]
    /\ UNCHANGED <<concVars, clock, storeVars, serviceVars>>

NeedsRefresh(tok) ==
    /\ call.pc = "idle"
    /\ TokenLog("NeedsRefresh", "", {tok}, {tok}, {OAuthToken_NeedsRefresh(tok, clock)},
                NoErr, "ok", <<>>, {})

RefreshIfNeeded(tok, kind, net, issued) ==
    LET r == OAuthToken_RefreshIfNeeded(tok, clock, kind, net, issued) IN
    /\ call.pc = "idle"
    /\ TokenLog("RefreshIfNeeded", kind, {tok}, {r.token}, {}, r.err, net,
                r.calls, r.got)

ProviderGetUserInfo(kind, tok, ext, netRefresh, issued, netProfile) ==
    LET r == OAuthProvider_GetUserInfo(kind, tok, clock, ext, netRefresh, issued,
                                       netProfile) IN
    /\ call.pc = "idle"
    /\ TokenLog("GetUserInfo", kind, {tok}, {r.token}, r.res, r.err,
                netRefresh, r.calls, {issued})

ProviderExchangeCode(kind, net, issued) ==
    LET r == OAuthProvider_ExchangeCode(kind, net, issued, clock) IN
    /\ call.pc = "idle"
    /\ TokenLog("ExchangeCode", kind, {}, {}, r.res, r.err, net,
                <<CalledWith("ExchangeCode", "code", net, r.err)>>, {issued})

ProviderRefreshToken(kind, refreshToken, net, issued) ==
    LET r == OAuthProvider_RefreshToken(kind, refreshToken, net, issued) IN
    /\ call.pc = "idle"
    /\ TokenLog("RefreshToken", kind, {}, {}, r.res, r.err, net,
                <<CalledWith("RefreshToken", refreshToken, net, r.err)>>, {issued})

\* the calls are independent of each other: each is made on a token and
\* with answers chosen afresh, after the clock has been read
Fresh == last.op \in {"none", "Advance"}

TokenNext ==
    \/ \E d \in {1} : Advance(d)
    \/ Fresh /\ \E tok \in Tokens : NeedsRefresh(tok)
    \/ Fresh /\ \E tok \in Tokens, kind \in ProviderKinds, net \in NetOutcomes,
                   issued \in IssuedTokens : RefreshIfNeeded(tok, kind, net, issued)
    \/ Fresh /\ \E tok \in Tokens, kind \in ProviderKinds, ext \in ExtIDs,
                   netRefresh \in NetOutcomes, issued \in IssuedTokens,
                   netProfile \in NetOutcomes :
           ProviderGetUserInfo(kind, tok, ext, netRefresh, issued, netProfile)
    \/ Fresh /\ \E kind \in ProviderKinds, net \in NetOutcomes,
                   issued \in IssuedTokens : ProviderExchangeCode(kind, net, issued)
    \/ Fresh /\ \E kind \in ProviderKinds, refreshToken \in {"", "rt1"},
                   net \in NetOutcomes, issued \in IssuedTokens :
           ProviderRefreshToken(kind, refreshToken, net, issued)

TokenSpec == Init /\ [][TokenNext]_vars

(* -------------------- properties of tokens and providers --------------- *)

\* the step completes a call on a token or on a provider
TokenStep(op) == last'.seq # last.seq /\ last'.op = op

\* C16: NeedsRefresh returns true if and only if ExpiresIn # 0 and
\* now + 300 >= ExpiresIn; it is false for ExpiresIn = 0, false for
\* ExpiresIn = now + 301 and true for ExpiresIn = now + 299.
C16_NeedsRefresh ==
    [][ TokenStep("NeedsRefresh") =>
          \A tok \in last'.arg :
             LET now == Unix(clock)
                 e == tok.ExpiresIn
             IN /\ last'.ret = {e # 0 /\ now + 300 >= e}
                /\ e = 0 => last'.ret = {FALSE}
                /\ e = now + 301 => last'.ret = {FALSE}
                /\ e = now + 299 => last'.ret = {TRUE}
      ]_vars

\* NeedsRefresh has answered for a token that expires in 299 seconds
C16_Witness ==
    /\ last.op = "NeedsRefresh"
    /\ \E tok \in last.arg : tok.ExpiresIn = Unix(clock) + 299
    /\ last.ret = {TRUE}

\* the condition under which RefreshIfNeeded is to refresh
MustRefresh(tok, now) ==
    /\ tok.ExpiresIn # 0 /\ now + 300 >= tok.ExpiresIn
    /\ tok.RefreshToken # ""

\* C17: when NeedsRefresh is true and the refresh token is non-empty,
\* RefreshIfNeeded calls the provider's RefreshToken exactly once with the
\* current refresh token and, on success, overwrites AccessToken and
\* ExpiresIn with the returned values; RefreshToken is replaced only by a
\* non-empty returned one and is otherwise preserved.
C17_RefreshOverwrites ==
    [][ TokenStep("RefreshIfNeeded") =>
          \A tok \in last'.arg : \A after \in last'.res :
             MustRefresh(tok, Unix(clock)) =>
                /\ Len(last'.calls) = 1
                /\ last'.calls[1].fn = "RefreshToken"
                /\ last'.calls[1].arg = tok.RefreshToken
                /\ last'.calls[1].err = NoErr =>
                      /\ last'.err = NoErr
                      /\ \E n \in last'.issued :
                            /\ last'.issued = {n}
                            /\ after.AccessToken = n.AccessToken
                            /\ after.ExpiresIn = n.ExpiresIn
                            /\ after.RefreshToken =
                                  IF n.RefreshToken # "" THEN n.RefreshToken
                                  ELSE tok.RefreshToken
      ]_vars

\* a refresh whose answer carried no refresh token: the old one is kept
C17_Witness ==
    /\ last.op = "RefreshIfNeeded" /\ last.err = NoErr
    /\ \E n \in last.issued : n.RefreshToken = ""
    /\ \E tok \in last.arg : \E after \in last.res :
          /\ tok.RefreshToken = "rt1" /\ after.RefreshToken = "rt1"
          /\ after.AccessToken = "at2"

\* C18: RefreshIfNeeded leaves the three fields unchanged and returns no
\* error without calling the provider when NeedsRefresh is false or the
\* refresh token is empty; when the provider's RefreshToken fails it returns
\* exactly that error and leaves the three fields unchanged.
C18_RefreshFrame ==
    [][ TokenStep("RefreshIfNeeded") =>
          \A tok \in last'.arg :
             /\ ~MustRefresh(tok, Unix(clock)) =>
                   /\ last'.res = {tok}
                   /\ last'.err = NoErr
                   /\ last'.calls = <<>>
             /\ (MustRefresh(tok, Unix(clock)) /\ last'.db # "ok") =>
                   /\ Len(last'.calls) = 1
                   /\ last'.calls[1].err # NoErr
                   /\ last'.err = last'.calls[1].err
                   /\ last'.err = OAuthProvider_RefreshToken(
                                      last'.id, tok.RefreshToken, last'.db,
                                      tok).err
                   /\ last'.res = {tok}
      ]_vars

\* a refresh that the provider refused
C18_Witness ==
    /\ last.op = "RefreshIfNeeded"
    /\ last.err # NoErr
    /\ Len(last.calls) = 1
    /\ last.res = last.arg

\* C19: each provider's GetUserInfo refreshes the token under the same
\* condition and with the same effect on the token as RefreshIfNeeded
\* (refresh attempted iff NeedsRefresh is true and a refresh token is
\* present), and on success the UserInfo embeds that same token.
C19_GetUserInfoRefreshes ==
    [][ TokenStep("GetUserInfo") =>
          \A tok \in last'.arg : \A n \in last'.issued :
             LET f == OAuthToken_RefreshIfNeeded(tok, clock, last'.id, last'.db, n)
             IN /\ ("RefreshToken" \in Fns(last'.calls))
                      <=> MustRefresh(tok, Unix(clock))
                /\ last'.res = {f.token}
                /\ f.err # NoErr => last'.err = f.err
                /\ last'.err = NoErr =>
                      \E ui \in last'.ret : last'.ret = {ui} /\ {ui.Token} = last'.res
      ]_vars

\* C20: every provider network call fails with an Unauthorized error when
\* the response status is non-2xx and with an Unexpected error when the
\* transport or the decoding of the response fails.
C20_NetworkErrors ==
    [][ (TokenStep("ExchangeCode") \/ TokenStep("GetUserInfo")
         \/ TokenStep("RefreshToken")) =>
          \A i \in 1..Len(last'.calls) :
             LET c == last'.calls[i] IN
             /\ c.net = "status" => c.err.type = "Unauthorized"
             /\ c.net \in {"transport", "decode"} => c.err.type = "UnexpectedError"
             /\ c.err # NoErr => (i = Len(last'.calls) /\ last'.err = c.err)
      ]_vars

(* ------------------------- errors rendered ---------------------------- *)

\* the kinds the two families use, and one that neither handler names
ErrorKinds ==
    {"ParseError", "UnexpectedError", "DatabaseError", "NotFound", "BadRequest",
     "Forbidden", "Unauthorized", "Conflict", "ServiceUnavailable",
     "DatabaseConnectionError", "DatabaseQueryError", "UserSessionTableNotExist",
     "AuthUserTableNotExist", "SessionCreationFailed", "SessionDeletionFailed",
     "UserCreationFailed", "UserUpdateFailed", "EncryptionError",
     "DecryptionError", "ConfigurationError", "UserSessionNotFound",
     "InvalidSessionId", "SessionExpired", "InvalidCredentials", "InvalidToken",
     "TokenExpired", "DuplicateUserError", "UnknownProvider", "Teapot"}
TaggedErrors ==
    { NewApiError(k, "api detail") : k \in ErrorKinds }
      \cup { NewLuciaError(k, "lucia detail") : k \in ErrorKinds }
\* errors of other types: a plain error, a fiber.Error
UntaggedErrors ==
    {[family |-> "error", type |-> "", msg |-> "dial tcp 10.0.0.5: refused"],
     [family |-> "fiber.Error", type |-> "NotFound", msg |-> "Cannot GET"]}
HandledErrors ==
    TaggedErrors \cup UntaggedErrors
      \cup { Wrapped(e) : e \in TaggedErrors \cup UntaggedErrors }

\* the framework hands an error returned by a handler to ErrorHandler
HandleError(err) ==
    /\ call.pc = "idle"
    /\ last.op = "none"
    /\ prev' = Brief(NoOp)
    /\ last' = [seq |-> 1 - last.seq, op |-> "ErrorHandler", id |-> "",
                arg |-> {err}, res |-> {ErrorHandler(err)}, err |-> NoErr,
                db |-> "ok", calls |-> <<>>, ext |-> ""]
    /\ UNCHANGED <<concVars, clock, storeVars, serviceVars>>

ErrorNext == \E err \in HandledErrors : HandleError(err)

ErrorSpec == Init /\ [][ErrorNext]_vars

\* the step renders an error
ErrorStep == last'.seq # last.seq /\ last'.op = "ErrorHandler"

IsTagged(err) == Cause(err).family \in {"ApiError", "LuciaError"}

\* C21: for every error kind of both families the status chosen by the error
\* handler follows the fixed table (NotFound 404; BadRequest,
\* InvalidSessionId 400; Forbidden 403; Unauthorized, SessionExpired,
\* InvalidCredentials, InvalidToken, TokenExpired 401; Conflict,
\* DuplicateUserError 409; ServiceUnavailable 503; every other kind 500).
C21_StatusTable ==
    [][ LET StatusTable(kind) ==
              CASE kind = "NotFound" -> 404
                [] kind \in {"BadRequest", "InvalidSessionId"} -> 400
                [] kind = "Forbidden" -> 403
                [] kind \in {"Unauthorized", "SessionExpired",
                             "InvalidCredentials", "InvalidToken",
                             "TokenExpired"} -> 401
                [] kind \in {"Conflict", "DuplicateUserError"} -> 409
                [] kind = "ServiceUnavailable" -> 503
                [] OTHER -> 500
        IN ErrorStep =>
             \A err \in last'.arg : \A r \in last'.res :
                IsTagged(err) => r.code = StatusTable(Cause(err).type)
      ]_vars

\* C22: an error whose cause is neither an ApiError nor a LuciaError is
\* rendered as 500 with the message "Internal Server Error", never with its
\* own text; an error whose cause is an ApiError or a LuciaError is rendered
\* with that error's message and the status mapped from its kind.
C22_ErrorRendering ==
    [][ ErrorStep =>
          \A err \in last'.arg : \A r \in last'.res :
             /\ last'.res = {r}
             /\ ~IsTagged(err) =>
                  /\ r.code = 500
                  /\ r.message = "Internal Server Error"
                  /\ r.message # err.msg /\ r.message # Cause(err).msg
             /\ IsTagged(err) =>
                  /\ r.message = Cause(err).msg
                  /\ r.code = IF Cause(err).family = "ApiError"
                              THEN handleApiError(Cause(err)).code
                              ELSE handleLuciaError(Cause(err)).code
                  /\ r.code \in {400, 401, 403, 404, 409, 500, 503}
      ]_vars

\* a plain error has been rendered
C22_Witness ==
    /\ last.op = "ErrorHandler"
    /\ \E err \in last.arg : err.family = "error" /\ err.msg # ""
    /\ last.res = {[code |-> 500, message |-> "Internal Server Error"]}

\* C30: whenever a require-auth guard (either variant) rejects a request
\* because no session was resolved, the error it returns is translated by
\* the error handler into HTTP status 401.
C30_GuardRejectionIs401 ==
    [][ RequestStep =>
          LET ran == last'.calls IN
          \A i \in 1..Len(ran) :
             (ran[i].fn \in GuardHandlers /\ ran[i].err # NoErr /\ i = Len(ran)) =>
                /\ last'.response # {}
                /\ \A r \in last'.response : r.code = 401
      ]_vars

(* ---------------- order of the calls of HandleCallback ------------------ *)

\* the position of a dependency call in HandleCallback
CallRank(fn) ==
    CASE fn = "ExchangeCode" -> 1
      [] fn = "GetUserInfo" -> 2
      [] fn = "GetUserByProviderID" -> 3
      [] fn = "CreateUser" -> 4
      [] fn = "CreateSession" -> 5

\* a dependency call whose error ends the invocation: every error but the
\* not-found of the lookup
FailedCall(c) ==
    c.err # NoErr /\ ~(c.fn = "GetUserByProviderID" /\ IsNotFound(c.err))

\* the calls made so far by the invocation in progress, or by the last one
CallsOfCallback ==
    IF call.pc # "idle" THEN call.calls
    ELSE IF last.op = "AuthService.HandleCallback" THEN last.calls ELSE <<>>

\* C24: within one HandleCallback the dependency calls occur in the order
\* ExchangeCode, GetUserInfo, GetUserByProviderID, CreateUser (only when the
\* lookup returned not-found), CreateSession; each is made at most once;
\* after the first failing call no further call is made and the invocation
\* ends in an error.
C24_CallOrder ==
    LET calls == CallsOfCallback IN
    /\ \A i \in 1..Len(calls) :
         /\ calls[i].fn \in {"ExchangeCode", "GetUserInfo", "GetUserByProviderID",
                              "CreateUser", "CreateSession"}
         /\ i = 1 => calls[i].fn = "ExchangeCode"
         /\ i > 1 =>
              /\ CallRank(calls[i - 1].fn) < CallRank(calls[i].fn)
              /\ ~FailedCall(calls[i - 1])
              /\ IF calls[i - 1].fn = "GetUserByProviderID"
                 THEN calls[i].fn = (IF calls[i - 1].err = NoErr
                                     THEN "CreateSession" ELSE "CreateUser")
                 ELSE CallRank(calls[i].fn) = CallRank(calls[i - 1].fn) + 1
    /\ (call.pc = "idle" /\ last.op = "AuthService.HandleCallback") =>
         /\ (\E i \in 1..Len(calls) : FailedCall(calls[i])) => last.err # NoErr
         /\ last.err = NoErr =>
              /\ calls # <<>>
              /\ calls[Len(calls)].fn = "CreateSession"
    /\ call.pc \notin {"idle", "ExchangeCode"} =>
         /\ calls # <<>>
         /\ call.pc = "CreateUser" => IsNotFound(calls[Len(calls)].err)
         /\ call.pc # "CreateUser" => calls[Len(calls)].err = NoErr

\* an invocation made all five calls and ended in the error of the last
C24_Witness ==
    /\ call.pc = "idle" /\ last.op = "AuthService.HandleCallback"
    /\ Len(last.calls) = 5
    /\ last.calls[4].fn = "CreateUser"
    /\ FailedCall(last.calls[5])
    /\ last.err # NoErr

\* C27: after HandleCallback with provider name N has created a User for
\* external id X, GetUserByProviderID(N, X) finds that User, for every name
\* N under which a provider may be registered.
C27_CreatedUserIsFound ==
    [][ (call.pc = "CreateUser" /\ call'.pc = "CreateSession") =>
          /\ call'.user # {}
          /\ InMemoryUserStore_GetUserByProviderID(users', call.provider, call.ext)
               = call'.user
      ]_vars

(* ----------------------- a session that was ended ----------------------- *)

\* sessions that are created, read and ended through the AuthService while
\* requests arrive at the routes behind AuthMiddleware
LogoutNext ==
    \/ \E d \in {1, DayTicks} : Advance(d)
    \/ \E s \in NewSessions : Store_CreateSession(s, "ok")
    \/ \E id \in IDs, db \in SvcDbOutcomes : GetSession(id, db)
    \/ \E id \in IDs, db \in SvcDbOutcomes : Logout(id, db)
    \/ \E id \in IDs, db \in SvcDbOutcomes : DeleteSession(id, db)
    \/ \E chainName \in {"generic", "genericGuard"}, cookie \in IDs,
          db \in SvcDbOutcomes :
           Request(chainName, cookie, {}, db)

LogoutSpec == Init /\ [][LogoutNext]_vars

\* the step creates the session with this id in the store
CreatesSession(id) ==
    /\ last'.seq # last.seq
    /\ last'.op = "CreateSession"
    /\ last'.err = NoErr
    /\ last'.id = id

\* C28: after a successful Logout or DeleteSession for session id S, every
\* later AuthService.GetSession(S) fails and no request carrying S in its
\* cookie passes the require-auth guard, in every later state in which no
\* session with id S has been created again. A successful Logout or
\* DeleteSession leaves the store without S; only the creation of a session
\* S puts S back; while the store is without S, GetSession(S) fails and a
\* request with cookie S does not get past AuthMiddleware.RequireAuth.
C28_EndedSessionStaysEnded ==
    [][ /\ ((ServiceStep("AuthService.Logout")
               \/ ServiceStep("AuthService.DeleteSession"))
            /\ last'.err = NoErr) => last'.id \notin DOMAIN Store'
        /\ \A S \in IDs :
             S \notin DOMAIN Store =>
               /\ S \in DOMAIN Store' => CreatesSession(S)
               /\ (ServiceStep("AuthService.GetSession") /\ last'.id = S) =>
                    /\ last'.err # NoErr
                    /\ last'.res = {}
               /\ (RequestStep /\ last'.id = S
                     /\ last'.ext \in {"generic", "genericGuard"}) =>
                    /\ "Handler" \notin Fns(last'.calls)
                    /\ IsUnauthorized(last'.err)
                    /\ last'.res = {}
      ]_vars

\* GetSession is called for the id that a successful Logout has just
\* been called for, and fails with UserSessionNotFound
C28_Witness ==
    /\ last.op = "AuthService.GetSession"
    /\ prev.op = "AuthService.Logout" /\ prev.err = NoErr
    /\ prev.id = last.id
    /\ last.id \notin DOMAIN Store
    /\ LuciaErr(last.err, "UserSessionNotFound")

(* --------------------------- expiry verdicts ---------------------------- *)

\* C25: a session is treated as expired exactly when expires_at < now:
\* Session.IsExpired, the GetSession of the in-memory store and the
\* GetSession of PostgresStore give the same verdict for every stored expiry
\* and every instant, also within the second equal to expires_at. Each
\* store's verdict on a stored session is compared with Session.IsExpired
\* on that session at the same instant.
C25_SameExpiryVerdict ==
    [][ (StoreStep("GetSession") /\ last'.db = "ok" /\ last'.id \in DOMAIN Store) =>
          (last'.res = {} <=> IsExpired(AsSession(Store[last'.id]), clock))
      ]_vars

(* ----------------------- a token without expiry ------------------------- *)

\* C29: a token returned by GoogleProvider.ExchangeCode or RefreshToken for
\* a provider response that carries no expiry has ExpiresIn = 0 and is
\* therefore treated as never expiring: NeedsRefresh is false for it and
\* GetUserInfo attempts no refresh.
C29_NoExpiryNeverExpires ==
    [][ ((TokenStep("ExchangeCode") \/ TokenStep("RefreshToken"))
           /\ last'.id = "GoogleProvider" /\ last'.err = NoErr) =>
          \A n \in last'.issued : \A tok \in last'.ret :
             n.ExpiresIn = 0 =>
                /\ tok.ExpiresIn = 0
                /\ ~OAuthToken_NeedsRefresh(tok, clock)
                /\ GetUserInfo_Refresh("GoogleProvider", tok, clock, "ok", n).calls
                     = <<>>
      ]_vars

(* ------------- goroutines calling the in-memory stores ------------------ *)

\* the map a store method works on, and the methods that take the lock
\* with RLock
MapOfOp(op) ==
    IF op \in {"GetUserByProviderID", "CreateUser"} THEN "users" ELSE "sessions"
SharedOps == {"GetUserByProviderID", "GetSession"}

\* the goroutine enters a store method; cb holds the UserInfo of the
\* HandleCallback invocation the call belongs to, if any
Enter(g, op, arg, cb) ==
    goroutines' = [goroutines EXCEPT
                     ![g] = [pc |-> "lock", op |-> op, arg |-> arg, ret |-> {},
                             cb |-> cb]]

\* an application goroutine calls a method of InMemorySessionStore
G_Call(g, op, arg) ==
    /\ sessionStore = "InMemorySessionStore"
    /\ goroutines[g].pc = "idle"
    /\ Enter(g, op, arg, {})
    /\ UNCHANGED <<clock, storeVars, serviceVars, last, prev, mu>>

\* HandleCallback, lines 75-91: the provider calls succeed and the
\* invocation enters userStore.GetUserByProviderID
G_HandleCallback(g, provider, ext) ==
    /\ sessionStore = "InMemorySessionStore"
    /\ goroutines[g].pc = "idle"
    /\ provider \in DOMAIN providers
    /\ LET userInfo == UserInfo(providers[provider], ext) IN
         Enter(g, "GetUserByProviderID",
               {[provider |-> provider, providerID |-> userInfo.ID]}, {userInfo})
    /\ UNCHANGED <<clock, storeVars, serviceVars, last, prev, mu>>

\* s.mu.RLock() / s.mu.Lock()
G_Lock(g) ==
    LET me == goroutines[g]
        m == MapOfOp(me.op)
    IN
    /\ me.pc = "lock"
    /\ mu[m].w = {}
    /\ IF me.op \in SharedOps
       THEN mu' = [mu EXCEPT ![m].r = @ \cup {g}]
       ELSE /\ mu[m].r = {}
            /\ mu' = [mu EXCEPT ![m].w = {g}]
    /\ goroutines' = [goroutines EXCEPT ![g].pc = "body"]
    /\ UNCHANGED <<clock, storeVars, serviceVars, last, prev>>

\* the body of the method up to its return, or up to the delete of
\* GetSession
G_Body(g, id) ==
    LET me == goroutines[g]
        Done(r) == goroutines' = [goroutines EXCEPT ![g].pc = "unlock",
                                                    ![g].ret = {r}]
    IN
    /\ me.pc = "body"
    /\ \E arg \in me.arg :
         CASE me.op = "GetUserByProviderID" ->
                LET found == InMemoryUserStore_GetUserByProviderID(
                                 users, arg.provider, arg.providerID)
                IN /\ IF found = {}
                      THEN Done([res |-> {}, err |-> ErrNotFound("User not found")])
                      ELSE \E user \in found : Done([res |-> {user}, err |-> NoErr])
                   /\ UNCHANGED <<users, sessions>>
           [] me.op = "CreateUser" ->
                LET r == InMemoryUserStore_CreateUser(users, arg, id) IN
                /\ users' = r.store
                /\ Done([res |-> r.res, err |-> r.err])
                /\ UNCHANGED sessions
           [] me.op = "CreateSession" ->
                LET r == InMemorySessionStore_CreateSession(sessions, arg) IN
                /\ sessions' = r.store
                /\ Done([res |-> r.res, err |-> r.err])
                /\ UNCHANGED users
           [] me.op = "GetSession" ->
                LET r == InMemorySessionStore_GetSession(sessions, arg, clock) IN
                /\ IF r.store # sessions
                   THEN goroutines' = [goroutines EXCEPT ![g].pc = "delete",
                                         ![g].ret = {[res |-> r.res, err |-> r.err]}]
                   ELSE Done([res |-> r.res, err |-> r.err])
                /\ UNCHANGED <<users, sessions>>
           [] me.op = "DeleteSession" ->
                LET r == InMemorySessionStore_DeleteSession(sessions, arg) IN
                /\ sessions' = r.store
                /\ Done([res |-> r.res, err |-> r.err])
                /\ UNCHANGED users
    /\ UNCHANGED <<clock, sessionStore, db_sessions, providers, call, last, prev,
                   mu>>

\* GetSession: delete(s.sessions, sessionID) of the expired session
G_Delete(g) ==
    LET me == goroutines[g] IN
    /\ me.pc = "delete"
    /\ \E arg \in me.arg : sessions' = Del(sessions, arg)
    /\ goroutines' = [goroutines EXCEPT ![g].pc = "unlock"]
    /\ UNCHANGED <<clock, sessionStore, db_sessions, serviceVars, last, prev, mu>>

\* the deferred s.mu.RUnlock() / s.mu.Unlock() as the method returns; a
\* HandleCallback invocation goes on to its next store call (lines 92-110)
G_Unlock(g, id) ==
    LET me == goroutines[g]
        m == MapOfOp(me.op)
        ret == CHOOSE r \in me.ret : TRUE
        Session_(user) == NewSession(id, user, clock)
    IN
    /\ me.pc = "unlock"
    /\ mu' = [mu EXCEPT ![m].r = @ \ {g}, ![m].w = @ \ {g}]
    /\ IF me.cb = {} \/ me.op = "CreateSession"
       THEN goroutines' = [goroutines EXCEPT ![g] = Resting]
       ELSE IF ret.err = NoErr
       THEN \E user \in ret.res :
              Enter(g, "CreateSession", {Session_(user)}, me.cb)
       ELSE IF me.op = "GetUserByProviderID" /\ IsNotFound(ret.err)
       THEN Enter(g, "CreateUser", me.cb, me.cb)
       ELSE goroutines' = [goroutines EXCEPT ![g] = Resting]
    /\ UNCHANGED <<clock, storeVars, serviceVars, last, prev>>

\* time passes until every session has expired
G_Expire ==
    /\ clock = TimeUnix(StartSec)
    /\ clock' = clock + DayTicks + TicksPerSec
    /\ UNCHANGED <<concVars, storeVars, serviceVars, last, prev>>

\* the provider is registered under the name it reports
ConcNext ==
    \/ RegisterProvider("google", "GoogleProvider")
    \/ G_Expire
    \/ \E g \in Goroutines, s \in NewSessions : G_Call(g, "CreateSession", {s})
    \/ \E g \in Goroutines, id \in IDs : G_Call(g, "GetSession", {id})
    \/ \E g \in Goroutines, id \in IDs : G_Call(g, "DeleteSession", {id})
    \/ \E g \in Goroutines, ext \in ExtIDs : G_HandleCallback(g, "google", ext)
    \/ \E g \in Goroutines : G_Lock(g)
    \/ \E g \in Goroutines, id \in IDs : G_Body(g, id)
    \/ \E g \in Goroutines : G_Delete(g)
    \/ \E g \in Goroutines, id \in IDs : G_Unlock(g, id)

ConcSpec == Init /\ [][ConcNext]_vars

\* the contents of the two maps
Maps == [users |-> users, sessions |-> sessions]

\* the goroutine has taken a step inside a store method
Stepped(g) == goroutines'[g] # goroutines[g] /\ goroutines[g].pc \in {"body", "delete"}

\* C23: in the in-memory stores every read of the map happens while the
\* store's lock is held at least in shared mode and every mutation of the
\* map (insert or delete, including the lazy deletion of an expired session
\* inside GetSession) happens while the lock is held in exclusive mode, so
\* no two goroutines can mutate the map, or mutate and read it, at the same
\* time.
C23_LockDiscipline ==
    [][ \A g \in Goroutines :
          Stepped(g) =>
            LET m == MapOfOp(goroutines[g].op) IN
            /\ g \in mu[m].r \cup mu[m].w
            /\ Maps'[m] # Maps[m] =>
                 /\ mu[m].w = {g}
                 /\ mu[m].r = {}
      ]_vars

\* C26: in every reachable state of the user store there is at most one
\* User per (provider, external id) pair, also when two HandleCallback
\* invocations for the same not-yet-known external user run interleaved
\* against the in-memory user store.
C26_OneUserPerExternalId ==
    \A k1, k2 \in DOMAIN users :
       (users[k1].Provider = users[k2].Provider
          /\ users[k1].ProviderID = users[k2].ProviderID) => k1 = k2

====
